---- MODULE Spec2Model ----
(***************************************************************************)
(* Model of the payment-intent gateway of src/index.js: an Express app     *)
(* with a JSON body parser, GET /health, POST /payment/create (one         *)
(* awaited stripe.paymentIntents.create call), a catch-all error handler   *)
(* and the SIGTERM / SIGINT handlers that drain the server and exit.       *)
(*                                                                         *)
(* Every connection carries one request.  Numbers are kept in tenths of a  *)
(* unit (495 is 49.5) so that Math.round has something to round.           *)
(***************************************************************************)
EXTENDS Integers, FiniteSets, Sequences, TLC

\* Number of connections the clients open during a run.
NumConns == 2

Conns == 1..NumConns

-----------------------------------------------------------------------------
(* JavaScript values: t is the typeof, s the string content (or, for a     *)
(* number, which kind of number it is), v the finite value in tenths.      *)

JSVal(t, s, v) == [t |-> t, s |-> s, v |-> v]

Undefined == JSVal("undefined", "", 0)

Str(s) == JSVal("string", s, 0)

Num(v) == JSVal("number", "finite", v)

Infinity == JSVal("number", "Infinity", 0)

NegInfinity == JSVal("number", "-Infinity", 0)

NaN == JSVal("number", "NaN", 0)

TypeOf(x) == x.t

\* ToNumber, for the values that occur: a numeric string converts to its
\* value, undefined to NaN.
ToNumber(x) ==
  IF x.t = "number" THEN x
  ELSE IF x.t = "string" /\ x.s = "100" THEN Num(1000)
  ELSE NaN

\* x < y of JavaScript: false as soon as one side is NaN.
JSLess(x, y) ==
  LET a == ToNumber(x)
      b == ToNumber(y)
  IN  IF a.s = "NaN" \/ b.s = "NaN" THEN FALSE
      ELSE IF a.s = "-Infinity" THEN b.s # "-Infinity"
      ELSE IF a.s = "Infinity" THEN FALSE
      ELSE IF b.s = "Infinity" THEN TRUE
      ELSE IF b.s = "-Infinity" THEN FALSE
      ELSE a.v < b.v

\* A plausible slip: truncation instead of rounding.
MathTrunc(x) ==
  LET a == ToNumber(x)
  IN  IF a.s = "finite" THEN Num((a.v \div 10) * 10) ELSE a

\* Math.round: the nearest integer, a tie going up; non-finite unchanged.
MathRound(x) ==
  LET a == ToNumber(x)
  IN  IF a.s = "finite" THEN Num(((a.v + 5) \div 10) * 10) ELSE a

\* JSON.stringify of an object, as res.json sends it: a member whose value
\* is undefined is left out.
ResJson(obj) ==
  [f \in {g \in DOMAIN obj : obj[g] # Undefined} |-> obj[f]]

Response(status, obj) == [status |-> status, body |-> ResJson(obj)]

-----------------------------------------------------------------------------
(* Requests.  raw says whether the request has a body ("none" when it has  *)
(* neither Content-Length nor Transfer-Encoding) and whether its bytes are *)
(* well-formed JSON; amount and currency are the members JSON.parse yields *)
(* for them.                                                               *)

Req(route, ctype, raw, amount, currency) ==
  [route |-> route, ctype |-> ctype, raw |-> raw,
   amount |-> amount, currency |-> currency]

Health == "GET /health"

Payment == "POST /payment/create"

JsonType == "application/json"

TextType == "text/plain"

NoType == ""

Requests ==
  { Req(Health, NoType, "none", Undefined, Undefined),
    Req(Health, JsonType, "malformed", Undefined, Undefined),
    Req(Payment, TextType, "malformed", Undefined, Undefined),
    Req(Payment, TextType, "ok", Num(15000), Undefined),
    Req(Payment, JsonType, "malformed", Undefined, Undefined),
    Req(Payment, JsonType, "none", Undefined, Undefined),
    Req(Payment, JsonType, "ok", Undefined, Undefined),
    Req(Payment, JsonType, "ok", Str("100"), Undefined),
    Req(Payment, JsonType, "ok", Num(0), Undefined),
    Req(Payment, JsonType, "ok", Num(-100), Undefined),
    Req(Payment, JsonType, "ok", Num(495), Undefined),
    Req(Payment, JsonType, "ok", Num(500), Undefined),
    Req(Payment, JsonType, "ok", Num(505), Undefined),
    Req(Payment, JsonType, "ok", Num(15004), Str("eur")),
    Req(Payment, JsonType, "ok", Infinity, Undefined) }

NoReq == Req("", "", "", Undefined, Undefined)

\* The version the process runs as: npm_package_version is unset.
AppVersion == Str("1.0.0")

-----------------------------------------------------------------------------
(* The remote processor.                                                   *)

Call(amount, currency) == [amount |-> amount, currency |-> currency]

NoCall == Call(Undefined, Undefined)

StripeError(type, code, message) ==
  [type |-> type, code |-> code, message |-> message]

StripeErrors ==
  { StripeError(Str("StripeInvalidRequestError"),
                Str("parameter_invalid_integer"), Str("Invalid integer")),
    StripeError(Str("StripeRateLimitError"),
                Str("rate_limit"), Str("Too many requests")),
    StripeError(Str("StripeConnectionError"),
                Undefined, Str("Connection to Stripe failed")) }

NoError == StripeError(Undefined, Undefined, Undefined)

\* The payment intent the processor creates for a call.
PaymentIntent(call) ==
  [id |-> Str("pi_1"), client_secret |-> Str("secret_1"),
   amount |-> call.amount, currency |-> call.currency]

NoResp == [status |-> 0, body |-> ResJson([error |-> Undefined])]

-----------------------------------------------------------------------------
(* State.  st, req, call, result and resp describe the request a           *)
(* connection carries; validated, calls and responses record what the      *)
(* handler did for it: whether it evaluated the amount check, how many     *)
(* create calls it issued and how many responses it sent.                  *)
(* inFlightAtSignal records the connections whose request was unanswered   *)
(* when the first termination signal arrived; exitCode is -1 while the     *)
(* process runs.                                                           *)

VARIABLES st, req, call, result, resp, validated, calls, responses,
          listening, inFlightAtSignal, exited, exitCode

vars == <<st, req, call, result, resp, validated, calls, responses,
          listening, inFlightAtSignal, exited, exitCode>>

Signals == {"SIGTERM", "SIGINT"}

Result(kind, err) == [kind |-> kind, err |-> err]

NoResult == Result("none", NoError)

Init ==
  /\ st = [r \in Conns |-> "idle"]
  /\ req = [r \in Conns |-> NoReq]
  /\ call = [r \in Conns |-> NoCall]
  /\ result = [r \in Conns |-> NoResult]
  /\ resp = [r \in Conns |-> NoResp]
  /\ validated = [r \in Conns |-> FALSE]
  /\ calls = [r \in Conns |-> 0]
  /\ responses = [r \in Conns |-> 0]
  /\ listening = TRUE
  /\ inFlightAtSignal = {}
  /\ exited = FALSE
  /\ exitCode = -1

-----------------------------------------------------------------------------
(* Middleware and handlers, as functions of the request.                   *)

\* A plausible slip: the content type never looked at.
ReqIsAnything(q, type) == TRUE

\* req.is(type): the request has a body and its content type matches.
ReqIs(q, type) == q.raw # "none" /\ q.ctype = type

ParseError ==
  [status |-> 400, message |-> Str("Unexpected token in JSON")]

\* express.json: a body of JSON type is parsed, and a malformed one throws;
\* without a body, or with a body of another type, nothing is parsed and
\* req.body is the empty object.
JsonParser(q) ==
  IF q.raw = "none" \/ q.ctype # JsonType
    THEN [threw |-> FALSE, amount |-> Undefined, currency |-> Undefined]
    ELSE IF q.raw = "malformed"
      THEN [threw |-> TRUE, amount |-> Undefined, currency |-> Undefined]
      ELSE [threw |-> FALSE, amount |-> q.amount, currency |-> q.currency]

\* A plausible slip: the error handler passing the error through.
ErrorHandlerLeaky(e) == Response(e.status, [error |-> e.message])

\* The catch-all error handler.
ErrorHandler(e) ==
  Response(500, [error |-> Str("Internal Server Error")])

HealthHandler ==
  Response(200, [status |-> Str("healthy"), version |-> AppVersion])

\* typeof amount !== "number" || amount < 50
AmountRejected(amount) ==
  TypeOf(amount) # "number" \/ JSLess(amount, Num(500))

\* const { amount, currency = "usd" } = req.body
CurrencyOrDefault(currency) ==
  IF currency = Undefined THEN Str("usd") ELSE currency

\* A plausible slip: every remote failure blamed on the caller's input.
StatusForErrorAlways400(e) == 400

StatusForError(e) ==
  IF e.type = Str("StripeInvalidRequestError") THEN 400 ELSE 500

-----------------------------------------------------------------------------
(* Actions.                                                                *)

\* The server accepts a connection; its request is still being read.
Accept(r) ==
  /\ ~exited
  /\ listening
  /\ st[r] = "idle"
  /\ st' = [st EXCEPT ![r] = "open"]
  /\ UNCHANGED <<req, call, result, resp, validated, calls, responses,
                 listening, inFlightAtSignal,
                 exited, exitCode>>

\* res.status(..).json(..) on connection r.
Send(r, response) ==
  /\ st' = [st EXCEPT ![r] = "done"]
  /\ resp' = [resp EXCEPT ![r] = response]
  /\ responses' = [responses EXCEPT ![r] = @ + 1]

\* stripe.paymentIntents.create(..) on behalf of connection r.
Create(r, c) ==
  /\ st' = [st EXCEPT ![r] = "awaiting"]
  /\ call' = [call EXCEPT ![r] = c]
  /\ calls' = [calls EXCEPT ![r] = @ + 1]

\* The request q has arrived on connection r: the middleware chain and the
\* route handler run up to the response or to the await.
Handle(r, q) ==
  /\ ~exited
  /\ st[r] = "open"
  /\ req' = [req EXCEPT ![r] = q]
  /\ LET parsed == JsonParser(q)
     IN  IF parsed.threw
           THEN /\ Send(r, ErrorHandler(ParseError))
                /\ UNCHANGED <<call, calls, validated>>
         ELSE IF q.route = Health
           THEN /\ Send(r, HealthHandler)
                /\ UNCHANGED <<call, calls, validated>>
         ELSE IF ~ReqIs(q, JsonType)
           THEN /\ Send(r, Response(415,
                           [error |-> Str("Unsupported Media Type")]))
                /\ UNCHANGED <<call, calls, validated>>
         ELSE /\ validated' = [validated EXCEPT ![r] = TRUE]
              /\ IF AmountRejected(parsed.amount)
                   THEN /\ Send(r, Response(400, [error |->
                             Str("Amount must be a number of at least 50 cents")]))
                        /\ UNCHANGED <<call, calls>>
                   ELSE /\ Create(r, Call(MathRound(parsed.amount),
                                          CurrencyOrDefault(parsed.currency)))
                        /\ UNCHANGED <<resp, responses>>
  /\ UNCHANGED <<result, listening, inFlightAtSignal,
                 exited, exitCode>>

\* The continuation after a resolved create call whose promise carried the
\* intent made for call c.
Resolved(r, c) ==
  /\ ~exited
  /\ st[r] = "awaiting"
  /\ c.amount.s = "finite"
  /\ c.amount.v % 10 = 0
  /\ result' = [result EXCEPT ![r] = Result("resolved", NoError)]
  /\ LET paymentIntent == PaymentIntent(c)
     IN  Send(r, Response(201,
                  [clientSecret |-> paymentIntent.client_secret,
                   amount |-> paymentIntent.amount,
                   currency |-> paymentIntent.currency,
                   id |-> paymentIntent.id]))
  /\ UNCHANGED <<req, call, validated, calls, listening, inFlightAtSignal,
                 exited, exitCode>>

\* A plausible slip: the intent kept in a variable the requests share, so
\* that a continuation can read the intent of another pending request.
StripeResolveShared(r) ==
  LET others == {o \in Conns : o # r /\ st[o] = "awaiting"}
  IN  IF others = {} THEN Resolved(r, call[r])
      ELSE Resolved(r, call[CHOOSE o \in others : TRUE])

\* The processor creates the intent and the handler of r resumes.
StripeResolve(r) == Resolved(r, call[r])

\* A plausible slip: the create call issued again after a failure.
StripeRejectRetry(r, e) ==
  /\ ~exited
  /\ st[r] = "awaiting"
  /\ IF calls[r] < 2
       THEN /\ Create(r, call[r])
            /\ UNCHANGED <<result, resp, responses>>
       ELSE /\ result' = [result EXCEPT ![r] = Result("rejected", e)]
            /\ Send(r, Response(StatusForError(e),
                   [error |-> e.message, code |-> e.code, type |-> e.type]))
            /\ UNCHANGED <<call, calls>>
  /\ UNCHANGED <<req, validated, listening, inFlightAtSignal,
                 exited, exitCode>>

\* The create call fails with e and the catch block of r's handler runs.
StripeReject(r, e) ==
  /\ ~exited
  /\ st[r] = "awaiting"
  /\ result' = [result EXCEPT ![r] = Result("rejected", e)]
  /\ Send(r, Response(StatusForError(e),
             [error |-> e.message, code |-> e.code, type |-> e.type]))
  /\ UNCHANGED <<req, call, validated, calls, listening, inFlightAtSignal,
                 exited, exitCode>>

\* The connection of an answered request ends; the server forgets it.
CloseConn(r) ==
  /\ ~exited
  /\ st[r] = "done"
  /\ st' = [st EXCEPT ![r] = "closed"]
  /\ req' = [req EXCEPT ![r] = NoReq]
  /\ call' = [call EXCEPT ![r] = NoCall]
  /\ result' = [result EXCEPT ![r] = NoResult]
  /\ resp' = [resp EXCEPT ![r] = NoResp]
  /\ UNCHANGED <<validated, calls, responses, listening, inFlightAtSignal,
                 exited, exitCode>>

\* SIGTERM or SIGINT: server.close(callback) stops the listening; the
\* callback waits for the server's 'close' event.
Signal(sig) ==
  /\ ~exited
  /\ listening' = FALSE
  /\ inFlightAtSignal' =
       IF listening THEN {r \in Conns : st[r] \in {"open", "awaiting"}}
       ELSE inFlightAtSignal
  /\ UNCHANGED <<st, req, call, result, resp, validated, calls, responses,
                 exited, exitCode>>

Drained == \A r \in Conns : st[r] \in {"idle", "closed"}

\* A plausible slip: process.exit(0) in the signal handler itself.
ServerClosedNoDrain ==
  /\ ~exited
  /\ ~listening
  /\ exited' = TRUE
  /\ exitCode' = 0
  /\ UNCHANGED <<st, req, call, result, resp, validated, calls, responses,
                 listening, inFlightAtSignal>>

\* The server, no longer listening and without connections, emits 'close':
\* the callback runs process.exit(0).
ServerClosed ==
  /\ ~exited
  /\ ~listening
  /\ Drained
  /\ exited' = TRUE
  /\ exitCode' = 0
  /\ UNCHANGED <<st, req, call, result, resp, validated, calls, responses,
                 listening, inFlightAtSignal>>

Next ==
  \/ \E r \in Conns : Accept(r)
  \/ \E r \in Conns : \E q \in Requests : Handle(r, q)
  \/ \E r \in Conns : StripeResolve(r)
  \/ \E r \in Conns : \E e \in StripeErrors : StripeReject(r, e)
  \/ \E r \in Conns : CloseConn(r)
  \/ \E sig \in Signals : Signal(sig)
  \/ ServerClosed

Spec == Init /\ [][Next]_vars

\* The event loop runs every callback that is ready, the processor answers
\* every call, and clients end the connections that were answered.
FairSpec ==
  /\ Spec
  /\ \A r \in Conns :
       /\ WF_vars(\E q \in Requests : Handle(r, q))
       /\ WF_vars(StripeResolve(r) \/ \E e \in StripeErrors : StripeReject(r, e))
       /\ WF_vars(CloseConn(r))
  /\ WF_vars(ServerClosed)

TypeOK ==
  /\ st \in [Conns -> {"idle", "open", "awaiting", "done", "closed"}]
  /\ \A r \in Conns : req[r] \in Requests \cup {NoReq}
  /\ \A r \in Conns : calls[r] \in 0..2 /\ responses[r] \in 0..2
  /\ listening \in BOOLEAN /\ exited \in BOOLEAN

-----------------------------------------------------------------------------
(* Properties.  Seen(r): connection r carries a request the handler has    *)
(* started on; Answered(r): that request has its response.                 *)

Seen(r) == st[r] \in {"awaiting", "done"}

Answered(r) == st[r] = "done"

JsonPayment(q) == q.route = Payment /\ q.ctype = JsonType /\ q.raw = "ok"

BelowFifty(x) ==
  /\ x.t = "number"
  /\ \/ x.s = "-Infinity"
     \/ x.s = "finite" /\ x.v < 500

FiniteAtLeastFifty(x) == x.t = "number" /\ x.s = "finite" /\ x.v >= 500

\* C1: a payment request of JSON content type (its body not malformed)
\* whose amount is below 50, not a number or missing is answered 400 and
\* no create call is ever issued for it.
C1_BadAmountRejected ==
  \A r \in Conns :
    (Seen(r) /\ req[r].route = Payment /\ req[r].ctype = JsonType
       /\ req[r].raw # "malformed"
       /\ (req[r].amount.t # "number" \/ BelowFifty(req[r].amount)))
    => /\ Answered(r)
       /\ resp[r].status = 400
       /\ calls[r] = 0

\* The same for the requests that carry a body: this much the code does.
BadAmountInBodyRejected ==
  \A r \in Conns :
    (Seen(r) /\ JsonPayment(req[r])
       /\ (req[r].amount.t # "number" \/ BelowFifty(req[r].amount)))
    => /\ Answered(r)
       /\ resp[r].status = 400
       /\ calls[r] = 0

\* C2: every create call carries an amount that came from a finite request
\* amount >= 50, and a payment request whose amount is not a finite number
\* >= 50 is answered without a create call.
C2_OnlyFiniteForwarded ==
  \A r \in Conns :
    /\ (Seen(r) /\ calls[r] > 0) => FiniteAtLeastFifty(req[r].amount)
    /\ (Seen(r) /\ JsonPayment(req[r]) /\ ~FiniteAtLeastFifty(req[r].amount))
         => (Answered(r) /\ calls[r] = 0)

\* C3: a payment request whose content type is not JSON is answered 415;
\* the amount check is not evaluated and no create call is issued.
C3_NotJsonIs415 ==
  \A r \in Conns :
    (Seen(r) /\ req[r].route = Payment /\ req[r].ctype # JsonType)
    => /\ Answered(r)
       /\ resp[r].status = 415
       /\ ~validated[r]
       /\ calls[r] = 0

C3_Witness ==
  \E r \in Conns :
    /\ Answered(r) /\ req[r].route = Payment /\ req[r].ctype = TextType
    /\ req[r].amount = Num(15000)
    /\ resp[r].status = 415

\* n is the integer nearest to a, a tie going up (both in tenths).
Nearest(n, a) == n % 10 = 0 /\ (n - a) \in -4..5

\* C4: a JSON payment request with a numeric amount >= 50 whose create call
\* succeeds is answered 201 with a non-empty clientSecret and the amount
\* rounded to the nearest integer, which is also the amount of the call.
C4_SuccessIs201Rounded ==
  \A r \in Conns :
    (Answered(r) /\ JsonPayment(req[r]) /\ FiniteAtLeastFifty(req[r].amount)
       /\ result[r].kind = "resolved")
    => /\ resp[r].status = 201
       /\ DOMAIN resp[r].body = {"clientSecret", "amount", "currency", "id"}
       /\ resp[r].body.clientSecret.t = "string"
       /\ resp[r].body.clientSecret.s # ""
       /\ resp[r].body.amount.s = "finite"
       /\ Nearest(resp[r].body.amount.v, req[r].amount.v)
       /\ call[r].amount.s = "finite"
       /\ Nearest(call[r].amount.v, req[r].amount.v)

C4_Witness ==
  \E r \in Conns :
    /\ Answered(r) /\ JsonPayment(req[r])
    /\ req[r].amount = Num(505)
    /\ result[r].kind = "resolved"
    /\ resp[r].body.amount = Num(510)

\* The member f of the body is the value x, or absent when x is undefined.
Carries(body, f, x) ==
  IF x = Undefined THEN f \notin DOMAIN body
  ELSE f \in DOMAIN body /\ body[f] = x

\* C5: after a failed create call the status is 400 exactly when the error
\* is of the invalid-request class and 500 otherwise, and the body carries
\* the error's message, code and type.
C5_RemoteFailureMapped ==
  \A r \in Conns :
    (Answered(r) /\ result[r].kind = "rejected")
    => LET e == result[r].err
       IN  /\ resp[r].status \in {400, 500}
           /\ resp[r].status = 400 <=> e.type.s = "StripeInvalidRequestError"
           /\ DOMAIN resp[r].body \subseteq {"error", "code", "type"}
           /\ Carries(resp[r].body, "error", e.message)
           /\ Carries(resp[r].body, "code", e.code)
           /\ Carries(resp[r].body, "type", e.type)

C5_Witness ==
  \E r \in Conns :
    /\ Answered(r) /\ result[r].kind = "rejected"
    /\ result[r].err.type = Str("StripeRateLimitError")
    /\ resp[r].status = 500

\* C6: at most one create call per request: one when the request passes
\* the content-type and amount checks, none otherwise; a failed call is
\* answered with that one call made.
C6_AtMostOneCall ==
  \A r \in Conns :
    /\ calls[r] <= 1
    /\ st[r] \in {"idle", "open"} => calls[r] = 0
    /\ Seen(r) =>
         (calls[r] = 1 <=>
            (JsonPayment(req[r]) /\ req[r].amount.t = "number"
               /\ ~BelowFifty(req[r].amount)))
    /\ (Answered(r) /\ result[r].kind = "rejected")
         => (calls[r] = 1 /\ responses[r] = 1)

C6_Witness ==
  \E r \in Conns :
    /\ Answered(r) /\ result[r].kind = "rejected"
    /\ calls[r] = 1

\* C7: a malformed JSON body on a JSON-typed request is answered 500 with
\* the generic message alone, and no create call is issued.
C7_ParseErrorIsGeneric500 ==
  \A r \in Conns :
    (Seen(r) /\ req[r].ctype = JsonType /\ req[r].raw = "malformed")
    => /\ Answered(r)
       /\ resp[r].status = 500
       /\ DOMAIN resp[r].body = {"error"}
       /\ resp[r].body.error = Str("Internal Server Error")
       /\ calls[r] = 0

C7_Witness ==
  \E r \in Conns :
    /\ Answered(r) /\ req[r].route = Payment
    /\ req[r].ctype = JsonType /\ req[r].raw = "malformed"
    /\ resp[r].status = 500

C8_ExitOnlyDrained ==
  exited =>
    /\ exitCode = 0
    /\ ~listening
    /\ \A r \in Conns : st[r] \in {"idle", "closed"}
    /\ \A r \in inFlightAtSignal : responses[r] = 1

C8_Step ==
  /\ ~listening => \A r \in Conns : st[r] = "idle" => st'[r] = "idle"
  /\ ~listening => ~listening'
  /\ \A r \in Conns :
       st[r] \in {"open", "awaiting"} => st'[r] \in {"open", "awaiting", "done"}

\* C8: after a termination signal no connection is accepted, no unanswered
\* request is dropped, every request that was unanswered when the signal
\* arrived gets its response, and the process exits only once every
\* connection has ended, with code 0.
C8_GracefulShutdown ==
  /\ []C8_ExitOnlyDrained
  /\ [][C8_Step]_vars
  /\ \A r \in Conns : (r \in inFlightAtSignal) ~> (responses[r] = 1)

C8_Witness ==
  /\ exited
  /\ exitCode = 0
  /\ \E r \in inFlightAtSignal : calls[r] = 1 /\ responses[r] = 1

\* C9: GET /health is always answered 200 with the fixed status payload and
\* never issues a create call.
C9_HealthAlways200 ==
  \A r \in Conns :
    (Seen(r) /\ req[r].route = Health)
    => /\ Answered(r)
       /\ resp[r].status = 200
       /\ resp[r].body = [status |-> Str("healthy"), version |-> AppVersion]
       /\ calls[r] = 0

\* C10: a request being read is handled, and a connection accepted, whatever
\* the other requests wait for; every request gets one response; a 201
\* echoes the request's own call, and two requests with the same input and
\* the same remote outcome get the same response.
C10_RequestsIndependent ==
  /\ \A r \in Conns :
       /\ (st[r] = "idle" /\ listening /\ ~exited) => ENABLED Accept(r)
       /\ (st[r] = "open" /\ ~exited)
            => ENABLED (\E q \in Requests : Handle(r, q))
       /\ (st[r] = "awaiting" /\ ~exited)
            => ENABLED (\E e \in StripeErrors : StripeReject(r, e))
       /\ responses[r] <= 1
       /\ responses[r] = 1 <=> st[r] \in {"done", "closed"}
       /\ (Answered(r) /\ resp[r].status = 201)
            => /\ resp[r].body.amount = call[r].amount
               /\ resp[r].body.currency = call[r].currency
  /\ \A r1, r2 \in Conns :
       (Answered(r1) /\ Answered(r2) /\ req[r1] = req[r2]
          /\ result[r1] = result[r2])
       => resp[r1] = resp[r2]

C10_Witness ==
  \E r1, r2 \in Conns :
    /\ r1 # r2
    /\ st[r1] = "awaiting"
    /\ Answered(r2) /\ resp[r2].status = 201
    /\ call[r1].amount # call[r2].amount

====
